---------------------------- MODULE Spec2Model ----------------------------
(***************************************************************************)
(* PlantCare-Monitor, device_files/fetch_plant_data.py.                    *)
(*                                                                         *)
(* Texts are tuples of one-character strings and offsets are 0-based, as   *)
(* in the Python source.  Every function of the source is modelled by its  *)
(* frame (a record of its local variables and a program counter pc) and    *)
(* one step operator per loop iteration or straight-line section.          *)
(***************************************************************************)
EXTENDS Integers, Sequences, FiniteSets, TLC

VARIABLES
    fpl,      \* frame of find_plant_links
    ppp,      \* frame of process_plant_page, with the response object it reads
    epd,      \* frame of extract_plant_data
    file,     \* content of plant_data.json on the device
    wpd,      \* frame of the last write_plant_data_to_json call
    mainf     \* frame of main

vars == <<fpl, ppp, epd, file, wpd, mainf>>

Idle == [pc |-> "idle"]

(***************************************************************************)
(* Bounds of the model.                                                    *)
(***************************************************************************)
MaxPieces == 4      \* pieces a listing page is assembled from
MaxChunks == 3      \* chunks in a response body
MaxBlocks == 2      \* markup pieces following the headings of a profile page
MaxStored == 2      \* entries already in the log file when the model starts
MaxWrites == 3      \* write_plant_data_to_json calls in one run
MaxLinks == 2       \* links of a listing page in a run of main

(***************************************************************************)
(* Python's str primitives.                                                *)
(***************************************************************************)
Min(a, b) == IF a < b THEN a ELSE b

\* s[a:b] for 0 <= a, 0 <= b
Slice(s, a, b) == SubSeq(s, a + 1, Min(b, Len(s)))

\* s[a:]
SliceFrom(s, a) == SubSeq(s, a + 1, Len(s))

\* sub occurs in s at offset i
MatchAt(s, sub, i) == \A k \in 1..Len(sub) : s[i + k] = sub[k]

\* s.find(sub, start): the least offset >= start where sub occurs, else -1
Find(s, sub, start) ==
    LET hits == {i \in start..(Len(s) - Len(sub)) : MatchAt(s, sub, i)}
    IN  IF hits = {} THEN -1
        ELSE CHOOSE i \in hits : \A j \in hits : i <= j

\* sub in s
Contains(s, sub) == Find(s, sub, 0) # -1

\* s.rfind(c) for a single character c
RECURSIVE RFindChar(_, _, _)
RFindChar(s, c, i) ==
    IF i < 0 THEN -1
    ELSE IF s[i + 1] = c THEN i
    ELSE RFindChar(s, c, i - 1)

Whitespace == {" ", "\t", "\n", "\r"}

RECURSIVE LStrip(_)
LStrip(s) ==
    IF s # <<>> /\ Head(s) \in Whitespace THEN LStrip(Tail(s)) ELSE s

RECURSIVE RStrip(_)
RStrip(s) ==
    IF s # <<>> /\ s[Len(s)] \in Whitespace
    THEN RStrip(SubSeq(s, 1, Len(s) - 1))
    ELSE s

\* s.strip()
Strip(s) == RStrip(LStrip(s))

LowerChar(c) ==
    CASE c = "A" -> "a"
      [] c = "B" -> "b"
      [] c = "U" -> "u"
      [] OTHER -> c

\* s.lower(), over the alphabet of the model
Lower(s) == [i \in 1..Len(s) |-> LowerChar(s[i])]

\* s.replace(a, b) for single characters a and b
ReplaceChar(s, a, b) == [i \in 1..Len(s) |-> IF s[i] = a THEN b ELSE s[i]]

\* s.split(c)[-1]: what follows the last c, or all of s
LastSegment(s, c) == SliceFrom(s, RFindChar(s, c, Len(s) - 1) + 1)

\* s.split(c)[0]: what precedes the first c, or all of s
FirstSegment(s, c) ==
    LET p == Find(s, <<c>>, 0) IN IF p = -1 THEN s ELSE Slice(s, 0, p)

\* s.split(c)[-2], defined when s holds a c
SecondLastSegment(s, c) ==
    LET q == RFindChar(s, c, Len(s) - 1) IN
    LastSegment(Slice(s, 0, q), c)

RECURSIVE Concat(_)
Concat(ss) == IF ss = <<>> THEN <<>> ELSE Head(ss) \o Concat(Tail(ss))

\* Tuples over S of length 0..n
SeqUpTo(S, n) == UNION {[1..k -> S] : k \in 0..n}

(***************************************************************************)
(* find_plant_links                                                        *)
(***************************************************************************)
IdLen == 8

\* The text  /plants/
PlantsPath == <<"/","p","l","a","n","t","s","/">>

\* The text  http://greg.app/
SiteRoot == <<"h","t","t","p",":","/","/","g","r","e","g",".","a","p","p","/">>

\* search_str = f"{username}/plants/"
SearchStr(username) == username \o PlantsPath

\* link = f"http://greg.app/{username.lower()}/plants/{plant_id}/"
MakeLink(username, plant_id) ==
    SiteRoot \o Lower(username) \o PlantsPath \o plant_id \o <<"/">>

FplEnter(html, username) ==
    [pc |-> "scan", html |-> html, username |-> username, start |-> 0,
     plant_ids |-> <<>>, links |-> <<>>]

\* plant_id = html[pos:pos + 8], pos being the offset that follows the marker
PlantIdAt(html, pos) == Slice(html, pos, pos + IdLen)

\* The cursor left at the start of the identifier slice
NextStartInsideSlice(pos) == pos

\* start = pos + 8
NextStart(pos) == pos + IdLen

\* One iteration of the while loop; when the search fails, the for loop
\* that builds the links and the return.
FplStep(f) ==
    LET search_str == SearchStr(f.username)
        found == Find(f.html, search_str, f.start)
        pos == found + Len(search_str)
    IN  IF found = -1
        THEN [f EXCEPT !.pc = "returned",
                       !.links = [i \in 1..Len(f.plant_ids) |->
                                     MakeLink(f.username, f.plant_ids[i])]]
        ELSE [f EXCEPT !.plant_ids = Append(@, PlantIdAt(f.html, pos)),
                       !.start = NextStart(pos)]

RECURSIVE FplRun(_)
FplRun(f) == IF f.pc = "scan" THEN FplRun(FplStep(f)) ELSE f

\* find_plant_links(html, username)
FindPlantLinks(html, username) == FplRun(FplEnter(html, username)).links

Usernames == {<<"U">>, <<"a","b">>}

\* The text  k3x9q2m7
SampleId == <<"k","3","x","9","q","2","m","7">>

\* What a listing page is assembled from: the marker, a plant id, and
\* shorter runs of text.
ListingPieces(username) ==
    {SearchStr(username), SampleId, <<"x">>, <<"<","a"," ",">">>}

ListingPages(username) ==
    {Concat(ps) : ps \in SeqUpTo(ListingPieces(username), MaxPieces)}

InitLinks ==
    /\ \E username \in Usernames :
         \E html \in ListingPages(username) :
            fpl = FplEnter(html, username)
    /\ ppp = Idle /\ epd = Idle /\ wpd = Idle /\ mainf = Idle
    /\ file = [exists |-> FALSE]

FindLinksStep ==
    /\ fpl.pc = "scan"
    /\ fpl' = FplStep(fpl)
    /\ UNCHANGED <<ppp, epd, file, wpd, mainf>>

SpecLinks == InitLinks /\ [][FindLinksStep]_vars

(***************************************************************************)
(* process_plant_chunk, process_plant_page                                 *)
(***************************************************************************)
None == [kind |-> "None"]

Str(t) == [kind |-> "str", val |-> t]

\* The text  <h1
H1Open == <<"<","h","1">>

\* The decoding failure not told from a decoded chunk
ProcessPlantChunkUnchecked(chunk) ==
    IF Contains(chunk.text, H1Open) THEN Str(chunk.text) ELSE None

\* A chunk of the body: utf8 tells whether chunk.decode('utf-8') succeeds,
\* text is what it then yields.
ProcessPlantChunk(chunk) ==
    IF ~chunk.utf8 THEN None
    ELSE IF Contains(chunk.text, H1Open) THEN Str(chunk.text)
    ELSE None

\* response = urequests.get(url, stream=True)
Response(body) == [raw |-> body, reads |-> 0, closes |-> 0, late_reads |-> 0]

\* response.raw.read(4096): counted on the response object
Read(response) ==
    [response EXCEPT !.reads = @ + 1,
                     !.late_reads = IF response.closes > 0 THEN @ + 1 ELSE @]

\* response.close()
Close(response) == [response EXCEPT !.closes = @ + 1]

PppEnter(body) == [pc |-> "read", response |-> Response(body), ret |-> None]

\* response.close(); return data
ReturnData(f, data) ==
    [f EXCEPT !.pc = "returned", !.response = Close(@), !.ret = data]

\* The no-match path without its close()
ReturnNoneUnclosed(f) == [f EXCEPT !.pc = "returned", !.ret = None]

\* the break, then response.close(); return None
ReturnNone(f) ==
    [f EXCEPT !.pc = "returned", !.response = Close(@), !.ret = None]

\* One iteration of the while loop.
PppStep(f) ==
    LET r == Read(f.response)
        g == [f EXCEPT !.response = r]
    IN  IF r.reads > Len(r.raw)
        THEN ReturnNone(g)
        ELSE LET data == ProcessPlantChunk(r.raw[r.reads])
             IN  IF data # None THEN ReturnData(g, data) ELSE g

RECURSIVE PppRun(_)
PppRun(f) == IF f.pc = "read" THEN PppRun(PppStep(f)) ELSE f

\* process_plant_page(url), the url answering with body
ProcessPlantPage(body) == PppRun(PppEnter(body)).ret

Text(t) == [utf8 |-> TRUE, text |-> t]

Undecodable(t) == [utf8 |-> FALSE, text |-> t]

BodyChunks ==
    {Text(<<"<","h","1",">","A">>), Text(<<"a","<","h","1">>), Text(<<"x","<","h">>), Text(<<"1",">","y">>),
     Undecodable(<<"<","h","1",">","?">>)}

InitFetch ==
    /\ \E body \in SeqUpTo(BodyChunks, MaxChunks) : ppp = PppEnter(body)
    /\ fpl = Idle /\ epd = Idle /\ wpd = Idle /\ mainf = Idle
    /\ file = [exists |-> FALSE]

FetchStep ==
    /\ ppp.pc = "read"
    /\ ppp' = PppStep(ppp)
    /\ UNCHANGED <<fpl, epd, file, wpd, mainf>>

SpecFetch == InitFetch /\ [][FetchStep]_vars

(***************************************************************************)
(* strip_tags, extract_plant_data                                          *)
(***************************************************************************)
RECURSIVE StripTagsFrom(_, _, _)
StripTagsFrom(text, i, in_tag) ==
    IF i > Len(text) THEN <<>>
    ELSE IF text[i] = "<" THEN StripTagsFrom(text, i + 1, TRUE)
    ELSE IF text[i] = ">" THEN StripTagsFrom(text, i + 1, FALSE)
    ELSE IF ~in_tag THEN <<text[i]>> \o StripTagsFrom(text, i + 1, in_tag)
    ELSE StripTagsFrom(text, i + 1, in_tag)

\* strip_tags(text)
StripTags(text) == Strip(StripTagsFrom(text, 1, FALSE))

\* return_data: a dict, as the tuple of its items in insertion order
HasKey(d, k) == \E i \in 1..Len(d) : d[i].key = k

\* d[k] = v
DictSet(d, k, v) ==
    IF HasKey(d, k)
    THEN [i \in 1..Len(d) |-> IF d[i].key = k THEN [key |-> k, value |-> v] ELSE d[i]]
    ELSE Append(d, [key |-> k, value |-> v])

\* return None, None
NoneNone == [kind |-> "tuple", items |-> <<None, None>>]

\* return return_data
Dict(d) == [kind |-> "dict", items |-> d]

Unbound == [bound |-> FALSE]

Bound(t) == [bound |-> TRUE, val |-> t]

\* The text  <article
ArticleOpen == <<"<","a","r","t","i","c","l","e">>
\* The text  id="plant-profile"
ProfileId == <<"i","d","=","\"","p","l","a","n","t","-","p","r","o","f","i","l","e","\"">>
\* The text  </h1>
H1Close == <<"<","/","h","1",">">>
\* The text  <h3
H3Open == <<"<","h","3">>
\* The text  </h3>
H3Close == <<"<","/","h","3",">">>
\* The text  <div class="plant-detail">
DivOpen == <<"<","d","i","v"," ","c","l","a","s","s","=","\"","p","l","a","n","t","-","d","e","t","a","i","l","\"",">">>
\* The text  </div>
DivClose == <<"<","/","d","i","v",">">>
\* The text  <img
ImgOpen == <<"<","i","m","g">>
\* The text  src="
SrcAttr == <<"s","r","c","=","\"">>
\* The text  alt="
AltAttr == <<"a","l","t","=","\"">>
\* The text  <span>
SpanOpen == <<"<","s","p","a","n",">">>
\* The text  </span>
SpanClose == <<"<","/","s","p","a","n",">">>
\* The text  plant_name
KeyName == <<"p","l","a","n","t","_","n","a","m","e">>
\* The text  plant_type
KeyType == <<"p","l","a","n","t","_","t","y","p","e">>

EpdEnter(html) ==
    [pc |-> "article", html |-> html, index |-> 0, end_of_tag |-> -1,
     search_index |-> 0, return_data |-> <<>>, identifier |-> Unbound,
     ret |-> None]

EpdReturn(f, v) == [f EXCEPT !.pc = "returned", !.ret = v]

EpdRaise(f, e) == [f EXCEPT !.pc = "raised", !.ret = [kind |-> "exception", type |-> e]]

\* index = end_of_tag + 1
NextIndex(end_of_tag) == end_of_tag + 1

\* One iteration of the loop that locates <article id="plant-profile">.
\* html.find on None raises AttributeError.
ArticleStep(f) ==
    IF f.html.kind # "str" THEN EpdRaise(f, "AttributeError")
    ELSE
    LET html == f.html.val
        start_index == Find(html, ArticleOpen, f.index)
        end_of_tag == Find(html, <<">">>, start_index)
        opening_tag == Slice(html, start_index, end_of_tag + 1)
    IN  IF start_index = -1 THEN EpdReturn(f, NoneNone)
        ELSE IF end_of_tag = -1 THEN EpdReturn(f, NoneNone)
        ELSE IF Contains(opening_tag, ProfileId)
        THEN [f EXCEPT !.pc = "headings", !.end_of_tag = end_of_tag]
        ELSE [f EXCEPT !.index = NextIndex(end_of_tag)]

\* article_content = html[end_of_tag + 1:]
ArticleContent(f) == SliceFrom(f.html.val, f.end_of_tag + 1)

\* The <h1> section: the name found (or not) and search_index after it.
NameSection(article_content) ==
    LET open_h1 == Find(article_content, H1Open, 0)
        tag_close == Find(article_content, <<">">>, open_h1)
        close_h1 == Find(article_content, H1Close, tag_close)
    IN  IF open_h1 = -1 THEN [found |-> FALSE, search_index |-> 0]
        ELSE IF tag_close = -1 THEN [found |-> FALSE, search_index |-> 0]
        ELSE IF close_h1 = -1 THEN [found |-> FALSE, search_index |-> tag_close + 1]
        ELSE [found |-> TRUE,
              plant_name |-> Strip(Slice(article_content, tag_close + 1, close_h1)),
              search_index |-> close_h1 + Len(H1Close)]

\* The <h3> section, searched from search_index.
TypeSection(article_content, search_index) ==
    LET open_h3 == Find(article_content, H3Open, search_index)
        tag_close == Find(article_content, <<">">>, open_h3)
        close_h3 == Find(article_content, H3Close, tag_close)
    IN  IF open_h3 = -1 \/ tag_close = -1 \/ close_h3 = -1
        THEN [found |-> FALSE, search_index |-> search_index]
        ELSE [found |-> TRUE,
              plant_type |-> StripTags(Strip(Slice(article_content, tag_close + 1, close_h3))),
              search_index |-> close_h3 + Len(H3Close)]

\* article_content and the two heading sections.
HeadingsStep(f) ==
    LET article_content == ArticleContent(f)
        h1 == NameSection(article_content)
        h3 == TypeSection(article_content, h1.search_index)
        d1 == IF h1.found THEN DictSet(f.return_data, KeyName, h1.plant_name)
              ELSE f.return_data
        d2 == IF h3.found THEN DictSet(d1, KeyType, h3.plant_type) ELSE d1
    IN  [f EXCEPT !.pc = "details", !.return_data = d2,
                  !.search_index = h3.search_index]

\* The src attribute of img_tag: identifier is assigned when src="..." is
\* found with its closing quote, and is left as it was otherwise.
SrcIdentifier(img_tag, identifier) ==
    LET src_start == Find(img_tag, SrcAttr, 0)
        from == src_start + Len(SrcAttr)
        src_end == Find(img_tag, <<"\"">>, from)
        img_path == Slice(img_tag, from, src_end)
    IN  IF src_start # -1 /\ src_end # -1
        THEN Bound(FirstSegment(LastSegment(img_path, "/"), "."))
        ELSE identifier

\* 'identifier' not in locals() or not identifier: try the alt attribute.
AltIdentifier(img_tag, identifier) ==
    LET alt_start == Find(img_tag, AltAttr, 0)
        from == alt_start + Len(AltAttr)
        alt_end == Find(img_tag, <<"\"">>, from)
    IN  IF ~identifier.bound \/ identifier.val = <<>>
        THEN IF alt_start # -1 /\ alt_end # -1
             THEN Bound(ReplaceChar(Slice(img_tag, from, alt_end), "-", "_"))
             ELSE identifier
        ELSE identifier

\* The <span> of div_content: its stripped text when both tags are found.
SpanValue(div_content) ==
    LET span_start == Find(div_content, SpanOpen, 0)
        from == span_start + Len(SpanOpen)
        span_end == Find(div_content, SpanClose, from)
    IN  IF span_start # -1 /\ span_end # -1
        THEN [found |-> TRUE, value |-> Strip(Slice(div_content, from, span_end))]
        ELSE [found |-> FALSE]

\* div_start = html.find('<div class="plant-detail">', search_index)
DivStart(f) == Find(f.html.val, DivOpen, f.search_index)

\* div_end = html.find('</div>', div_start)
DivEnd(f) == Find(f.html.val, DivClose, DivStart(f))

\* div_content = html[div_start:div_end]
DivContent(f) == Slice(f.html.val, DivStart(f), DivEnd(f))

\* The cursor left at the start of the page
NextSearchIndexRewound(div_end) == 0

\* search_index = div_end + 1
NextSearchIndex(div_end) == div_end + 1

\* One iteration of the plant-detail loop.  return_data[identifier] with
\* identifier never assigned raises NameError (UnboundLocalError).
DetailStep(f) ==
    LET div_start == DivStart(f)
        div_end == DivEnd(f)
        div_content == DivContent(f)
        img_tag_start == Find(div_content, ImgOpen, 0)
        img_tag_end == Find(div_content, <<">">>, img_tag_start)
        has_img == img_tag_start # -1 /\ img_tag_end # -1
        img_tag == Slice(div_content, img_tag_start, img_tag_end + 1)
        identifier == IF has_img
                      THEN AltIdentifier(img_tag, SrcIdentifier(img_tag, f.identifier))
                      ELSE f.identifier
        span == SpanValue(div_content)
        g == [f EXCEPT !.identifier = identifier]
    IN  IF div_start = -1 \/ div_end = -1
        THEN EpdReturn(f, Dict(f.return_data))
        ELSE IF has_img /\ span.found
        THEN IF ~identifier.bound
             THEN EpdRaise(g, "NameError")
             ELSE [g EXCEPT !.return_data = DictSet(@, identifier.val, span.value),
                            !.search_index = NextSearchIndex(div_end)]
        ELSE [g EXCEPT !.search_index = NextSearchIndex(div_end)]

EpdStep(f) ==
    CASE f.pc = "article" -> ArticleStep(f)
      [] f.pc = "headings" -> HeadingsStep(f)
      [] f.pc = "details" -> DetailStep(f)

EpdRunning(f) == f.pc \in {"article", "headings", "details"}

RECURSIVE EpdRun(_)
EpdRun(f) == IF EpdRunning(f) THEN EpdRun(EpdStep(f)) ELSE f

\* extract_plant_data(html): what it returns or raises
ExtractPlantData(html) == EpdRun(EpdEnter(html)).ret

(***************************************************************************)
(* Profile pages extract_plant_data is applied to: what precedes the       *)
(* container, the container's opening tag, the headings, and the markup    *)
(* that follows them.                                                      *)
(***************************************************************************)
\* The text  <div class="plant-detail"><img src="/i/sun.png"><span> 6h </span></div>
BlockSrc == <<"<","d","i","v"," ","c","l","a","s","s","=","\"","p","l","a","n","t","-","d","e","t","a","i","l","\"",">","<","i","m","g"," ","s","r","c","=","\"","/","i","/","s","u","n",".","p","n","g","\"",">","<","s","p","a","n",">"," ","6","h"," ","<","/","s","p","a","n",">","<","/","d","i","v",">">>
\* The text  <div class="plant-detail"><img alt="pot-size"><span>9in</span></div>
BlockAlt == <<"<","d","i","v"," ","c","l","a","s","s","=","\"","p","l","a","n","t","-","d","e","t","a","i","l","\"",">","<","i","m","g"," ","a","l","t","=","\"","p","o","t","-","s","i","z","e","\"",">","<","s","p","a","n",">","9","i","n","<","/","s","p","a","n",">","<","/","d","i","v",">">>
\* The text  <div class="plant-detail"><img src="w.png" alt="x-y"><span>2d</span></div>
BlockSrcAlt == <<"<","d","i","v"," ","c","l","a","s","s","=","\"","p","l","a","n","t","-","d","e","t","a","i","l","\"",">","<","i","m","g"," ","s","r","c","=","\"","w",".","p","n","g","\""," ","a","l","t","=","\"","x","-","y","\"",">","<","s","p","a","n",">","2","d","<","/","s","p","a","n",">","<","/","d","i","v",">">>
\* The text  <div class="plant-detail"><img src="" alt="a-b"><span>lo</span></div>
BlockEmptySrcAlt == <<"<","d","i","v"," ","c","l","a","s","s","=","\"","p","l","a","n","t","-","d","e","t","a","i","l","\"",">","<","i","m","g"," ","s","r","c","=","\"","\""," ","a","l","t","=","\"","a","-","b","\"",">","<","s","p","a","n",">","l","o","<","/","s","p","a","n",">","<","/","d","i","v",">">>
\* The text  <div class="plant-detail"><img src=""><span>e</span></div>
BlockEmptySrc == <<"<","d","i","v"," ","c","l","a","s","s","=","\"","p","l","a","n","t","-","d","e","t","a","i","l","\"",">","<","i","m","g"," ","s","r","c","=","\"","\"",">","<","s","p","a","n",">","e","<","/","s","p","a","n",">","<","/","d","i","v",">">>
\* The text  <div class="plant-detail"><img class="i"><span>n</span></div>
BlockNoId == <<"<","d","i","v"," ","c","l","a","s","s","=","\"","p","l","a","n","t","-","d","e","t","a","i","l","\"",">","<","i","m","g"," ","c","l","a","s","s","=","\"","i","\"",">","<","s","p","a","n",">","n","<","/","s","p","a","n",">","<","/","d","i","v",">">>
\* The text  <div class="plant-detail"><img src="t.png"></div>
BlockNoSpan == <<"<","d","i","v"," ","c","l","a","s","s","=","\"","p","l","a","n","t","-","d","e","t","a","i","l","\"",">","<","i","m","g"," ","s","r","c","=","\"","t",".","p","n","g","\"",">","<","/","d","i","v",">">>
\* The text  <div class="plant-detail"><span>s</span></div>
BlockNoImg == <<"<","d","i","v"," ","c","l","a","s","s","=","\"","p","l","a","n","t","-","d","e","t","a","i","l","\"",">","<","s","p","a","n",">","s","<","/","s","p","a","n",">","<","/","d","i","v",">">>
\* The text  <div class="plant-detail"><img src="u.png"><span>o</span>
BlockOpenEnded == <<"<","d","i","v"," ","c","l","a","s","s","=","\"","p","l","a","n","t","-","d","e","t","a","i","l","\"",">","<","i","m","g"," ","s","r","c","=","\"","u",".","p","n","g","\"",">","<","s","p","a","n",">","o","<","/","s","p","a","n",">">>

DetailPieces ==
    {BlockSrc, BlockAlt, BlockSrcAlt, BlockEmptySrcAlt, BlockEmptySrc,
     BlockNoId, BlockNoSpan, BlockNoImg, BlockOpenEnded}

Preambles == {<<>>, <<"<","d","i","v"," ","c","l","a","s","s","=","\"","p","l","a","n","t","-","d","e","t","a","i","l","\"",">","<","i","m","g"," ","s","r","c","=","\"","p","r","e",".","p","n","g","\"",">","<","s","p","a","n",">","p","<","/","s","p","a","n",">","<","/","d","i","v",">">>}

Containers ==
    {<<>>,
     <<"<","a","r","t","i","c","l","e">>,
     <<"<","a","r","t","i","c","l","e"," ","c","l","a","s","s","=","\"","f","e","e","d","\"",">">>,
     <<"<","a","r","t","i","c","l","e"," ","i","d","=","\"","p","l","a","n","t","-","p","r","o","f","i","l","e","\"",">">>,
     <<"<","a","r","t","i","c","l","e"," ","c","l","a","s","s","=","\"","f","e","e","d","\"",">","<","a","r","t","i","c","l","e"," ","i","d","=","\"","p","l","a","n","t","-","p","r","o","f","i","l","e","\"",">">>}

Headings ==
    {<<>>,
     <<"<","h","1",">"," ","F","i","g"," ","<","/","h","1",">">>,
     <<"<","h","1",">","F","i","g","<","/","h","1",">","<","h","3",">","F","i","c","u","s"," ","<","i",">","l","y","r","a","t","a","<","/","i",">","<","/","h","3",">">>,
     <<"<","h","3",">","o","l","d","<","/","h","3",">","<","h","1",">","F","i","g","<","h","3",">","F","i","c","u","s","<","/","h","3",">">>}

ProfilePages ==
    {pre \o c \o h \o Concat(bs) :
        pre \in Preambles, c \in Containers, h \in Headings,
        bs \in SeqUpTo(DetailPieces, MaxBlocks)}

InitExtract ==
    /\ \E html \in ProfilePages : epd = EpdEnter(Str(html))
    /\ fpl = Idle /\ ppp = Idle /\ wpd = Idle /\ mainf = Idle
    /\ file = [exists |-> FALSE]

LocateArticle ==
    /\ epd.pc = "article"
    /\ epd' = ArticleStep(epd)
    /\ UNCHANGED <<fpl, ppp, file, wpd, mainf>>

ExtractHeadings ==
    /\ epd.pc = "headings"
    /\ epd' = HeadingsStep(epd)
    /\ UNCHANGED <<fpl, ppp, file, wpd, mainf>>

ExtractDetail ==
    /\ epd.pc = "details"
    /\ epd' = DetailStep(epd)
    /\ UNCHANGED <<fpl, ppp, file, wpd, mainf>>

NextExtract == LocateArticle \/ ExtractHeadings \/ ExtractDetail

SpecExtract == InitExtract /\ [][NextExtract]_vars

(***************************************************************************)
(* write_plant_data_to_json                                                *)
(*                                                                         *)
(* The file holds JSON text, modelled as a tuple of tokens: "[", "]", ","  *)
(* and one token per JSON object.  json.dumps writes a list or a tuple as  *)
(* an array; json.loads reads an array back as a list.                     *)
(***************************************************************************)
LBracket == [t |-> "["]
RBracket == [t |-> "]"]
Comma == [t |-> ","]
Object(v) == [t |-> "object", v |-> v]

\* The JSON value json.dumps writes for the value of "data"
DataToJson(v) ==
    CASE v.kind = "dict" -> [json |-> "object", items |-> v.items]
      [] v.kind = "tuple" -> [json |-> "array", items |-> v.items]
      [] v.kind = "list" -> [json |-> "array", items |-> v.items]
      [] OTHER -> [json |-> "null"]

\* The value json.loads builds from the JSON value of "data"
DataFromJson(j) ==
    CASE j.json = "object" -> [kind |-> "dict", items |-> j.items]
      [] j.json = "array" -> [kind |-> "list", items |-> j.items]
      [] OTHER -> None

EntryToJson(e) == [e EXCEPT !.data = DataToJson(@)]

EntryFromJson(j) == [j EXCEPT !.data = DataFromJson(@)]

RECURSIVE JoinObjects(_)
JoinObjects(es) ==
    IF es = <<>> THEN <<>>
    ELSE IF Len(es) = 1 THEN <<Object(EntryToJson(es[1]))>>
    ELSE <<Object(EntryToJson(es[1])), Comma>> \o JoinObjects(Tail(es))

\* json.dumps(existing_data), existing_data a list of entries
Dumps(es) == <<LBracket>> \o JoinObjects(es) \o <<RBracket>>

\* content is the text of a JSON array of objects
IsArrayText(content) ==
    /\ Len(content) >= 2
    /\ content[1] = LBracket
    /\ content[Len(content)] = RBracket
    /\ \/ Len(content) = 2
       \/ /\ Len(content) % 2 = 1
          /\ \A i \in 2..(Len(content) - 1) :
                IF i % 2 = 0 THEN content[i].t = "object" ELSE content[i] = Comma

\* json.loads(content): a list, a single object, or ValueError
Loads(content) ==
    IF IsArrayText(content)
    THEN [ok |-> TRUE, list |-> TRUE,
          val |-> [k \in 1..((Len(content) - 1) \div 2) |->
                      EntryFromJson(content[2 * k].v)]]
    ELSE IF Len(content) = 1 /\ content[1].t = "object"
    THEN [ok |-> TRUE, list |-> FALSE, val |-> EntryFromJson(content[1].v)]
    ELSE [ok |-> FALSE]

Absent == [exists |-> FALSE]

Stored(content) == [exists |-> TRUE, content |-> content]

\* new_entry = {"plant_id": ..., "timestamp": ..., "data": ...}
NewEntry(plant_data, plant_id, timestamp) ==
    [plant_id |-> plant_id, timestamp |-> timestamp, data |-> plant_data]

\* The inner try: existing_data as read from the file.  read_error is the
\* environment failing open() or read() with OSError; open() of a file
\* that does not exist raises OSError in any case.
ReadExisting(f, read_error) ==
    IF ~f.exists \/ read_error THEN <<>>
    ELSE IF f.content = <<>> THEN <<>>
    ELSE LET parsed == Loads(f.content)
         IN  IF ~parsed.ok THEN <<>>
             ELSE IF ~parsed.list THEN <<parsed.val>>
             ELSE parsed.val

\* with open(filename, 'w') as f: f.write(...).  The environment lets the
\* call succeed, fails open() (nothing is touched), or fails write() after
\* open() has truncated the file and `written` tokens went out.
WriteBack(f, text, outcome) ==
    CASE outcome.kind = "ok" -> Stored(text)
      [] outcome.kind = "open_error" -> f
      [] outcome.kind = "write_error" -> Stored(SubSeq(text, 1, outcome.written))

WriteOutcomes(text) ==
    {[kind |-> "ok"], [kind |-> "open_error"]}
    \cup {[kind |-> "write_error", written |-> n] : n \in {0, Len(text) - 1}}

\* The text written back: the existing entries and the new one
NewText(f, read_error, new_entry) ==
    Dumps(Append(ReadExisting(f, read_error), new_entry))

\* write_plant_data_to_json(plant_data, plant_id): the file after the call
WritePlantData(f, new_entry, read_error, outcome) ==
    WriteBack(f, NewText(f, read_error, new_entry), outcome)

\* RTC().datetime(), formatted: the values the clock takes in a run
Timestamps == {<<"2","0","2","5","-","0","1","-","0","1"," ","0","8",":","0","0",":","0","0">>, <<"2","0","2","5","-","0","1","-","0","1"," ","0","9",":","0","0",":","0","0">>}

SampleData ==
    {Dict(<<>>),
     Dict(<<[key |-> KeyName, value |-> <<"F","i","g">>]>>),
     NoneNone}

StoredEntries ==
    {NewEntry(Dict(<<[key |-> KeyName, value |-> <<"I","v","y">>]>>), SampleId, <<"2","0","2","4","-","1","2","-","3","1"," ","0","8",":","0","0",":","0","0">>),
     NewEntry(NoneNone, SampleId, <<"2","0","2","4","-","1","2","-","3","1"," ","0","9",":","0","0",":","0","0">>)}

InitialFiles ==
    {Absent, Stored(<<>>)}
    \cup {Stored(Dumps(es)) : es \in SeqUpTo(StoredEntries, MaxStored)}
    \cup {Stored(<<Object(EntryToJson(e))>>) : e \in StoredEntries}
    \cup {Stored(<<LBracket, Object(EntryToJson(e))>>) : e \in StoredEntries}

InitLog ==
    /\ file \in InitialFiles
    /\ wpd = [pc |-> "ready", calls |-> 0]
    /\ fpl = Idle /\ ppp = Idle /\ epd = Idle /\ mainf = Idle

WriteCall ==
    /\ wpd.pc \in {"ready", "returned"}
    /\ wpd.calls < MaxWrites
    /\ \E plant_data \in SampleData, timestamp \in Timestamps, read_error \in BOOLEAN :
         LET new_entry == NewEntry(plant_data, SampleId, timestamp) IN
         \E outcome \in WriteOutcomes(NewText(file, read_error, new_entry)) :
            /\ file' = WritePlantData(file, new_entry, read_error, outcome)
            /\ wpd' = [pc |-> "returned", calls |-> wpd.calls + 1,
                       new_entry |-> new_entry, read_error |-> read_error,
                       outcome |-> outcome]
    /\ UNCHANGED <<fpl, ppp, epd, mainf>>

SpecLog == InitLog /\ [][WriteCall]_vars

(***************************************************************************)
(* main                                                                    *)
(***************************************************************************)
\* if plant_info is not None and plant_info != {}
HasInfo(plant_info) ==
    /\ plant_info # None
    /\ plant_info # Dict(<<>>)

\* for key, value in plant_info.items(): a tuple has no items()
CanIterateItems(plant_info) == plant_info.kind = "dict"

\* plant_id = link.split("/")[-2]
PlantIdOf(link) == SecondLastSegment(link, "/")

MainEnter(plant_links) ==
    [pc |-> IF plant_links = <<>> THEN "done" ELSE "fetch",
     plant_links |-> plant_links, i |-> 1, fetched |-> 0, extracted |-> 0,
     plant_id |-> <<>>, plant_html |-> None, plant_info |-> None]

\* The for loop moves to the next link, or ends.
NextLink(m) ==
    [m EXCEPT !.i = @ + 1,
              !.pc = IF m.i + 1 > Len(m.plant_links) THEN "done" ELSE "fetch"]

\* An uncaught exception leaves main.
MainRaise(m, e) == [m EXCEPT !.pc = "raised", !.plant_info = e]

\* plant_id = ...; plant_html = process_plant_page(link)
MainFetchStep(m, body) ==
    [m EXCEPT !.pc = "extract",
              !.plant_id = PlantIdOf(m.plant_links[m.i]),
              !.plant_html = ProcessPlantPage(body),
              !.fetched = @ + 1]

\* plant_info = extract_plant_data(plant_html)
MainExtractStep(m) ==
    LET r == ExtractPlantData(m.plant_html)
        n == [m EXCEPT !.extracted = @ + 1]
    IN  IF r.kind = "exception" THEN MainRaise(n, r)
        ELSE [n EXCEPT !.pc = "report", !.plant_info = r]

\* The if/else that prints the fields or the error line.
MainReportStep(m) ==
    IF HasInfo(m.plant_info) /\ ~CanIterateItems(m.plant_info)
    THEN MainRaise(m, [kind |-> "exception", type |-> "AttributeError"])
    ELSE [m EXCEPT !.pc = "write"]

\* Bodies the site answers a plant page with
PageBodies ==
    {<<Text(<<"<","h","t","m","l",">","<","h","e","a","d",">">>)>>,
     <<Text(<<"<","h","t","m","l",">">>), Text(<<"<","h","1",">","F","i","g","<","/","h","1",">">>)>>,
     <<Text(<<"<","a","r","t","i","c","l","e"," ","i","d","=","\"","p","l","a","n","t","-","p","r","o","f","i","l","e","\"",">","<","h","2",">","F","i","g","<","/","h","2",">","<","h","1">>)>>,
     <<Undecodable(<<"<","h","1",">">>), Text(<<"<","a","r","t","i","c","l","e"," ","i","d","=","\"","p","l","a","n","t","-","p","r","o","f","i","l","e","\"",">","<","h","1",">","F","i","g","<","/","h","1",">">>)>>}

ListingEntries(username) ==
    {SearchStr(username) \o SampleId \o <<"/","\"",">">>,
     SearchStr(username) \o <<"p","0","t","4","t","0","e","5">> \o <<"/","\"",">">>}

InitMain ==
    /\ \E username \in Usernames :
         \E es \in SeqUpTo(ListingEntries(username), MaxLinks) :
            mainf = MainEnter(FindPlantLinks(Concat(es), username))
    /\ file \in {Absent, Stored(Dumps(<<>>))}
    /\ wpd = [pc |-> "ready", calls |-> 0]
    /\ fpl = Idle /\ ppp = Idle /\ epd = Idle

MainFetch ==
    /\ mainf.pc = "fetch"
    /\ \E body \in PageBodies : mainf' = MainFetchStep(mainf, body)
    /\ UNCHANGED <<fpl, ppp, epd, file, wpd>>

MainExtract ==
    /\ mainf.pc = "extract"
    /\ mainf' = MainExtractStep(mainf)
    /\ UNCHANGED <<fpl, ppp, epd, file, wpd>>

MainReport ==
    /\ mainf.pc = "report"
    /\ mainf' = MainReportStep(mainf)
    /\ UNCHANGED <<fpl, ppp, epd, file, wpd>>

\* write_plant_data_to_json(plant_info, plant_id), then the next link
MainWrite ==
    /\ mainf.pc = "write"
    /\ \E timestamp \in Timestamps, read_error \in BOOLEAN :
         LET new_entry == NewEntry(mainf.plant_info, mainf.plant_id, timestamp) IN
         \E outcome \in WriteOutcomes(NewText(file, read_error, new_entry)) :
            /\ file' = WritePlantData(file, new_entry, read_error, outcome)
            /\ wpd' = [pc |-> "returned", calls |-> wpd.calls + 1,
                       new_entry |-> new_entry, read_error |-> read_error,
                       outcome |-> outcome]
    /\ mainf' = NextLink(mainf)
    /\ UNCHANGED <<fpl, ppp, epd>>

NextMain == MainFetch \/ MainExtract \/ MainReport \/ MainWrite

SpecMain == InitMain /\ [][NextMain]_vars

(***************************************************************************)
(* The scanning loops together: a run is one call of find_plant_links or   *)
(* one call of extract_plant_data.                                         *)
(***************************************************************************)
NextScan == FindLinksStep \/ LocateArticle \/ ExtractHeadings \/ ExtractDetail

SpecScan == (InitLinks \/ InitExtract) /\ [][NextScan]_vars

(***************************************************************************)
(* Properties of find_plant_links (SpecLinks).                             *)
(***************************************************************************)
\* Offsets at which sub occurs in s
Occurrences(s, sub) ==
    {i \in 0..(Len(s) - Len(sub)) : SubSeq(s, i + 1, i + Len(sub)) = sub}

\* The n-th smallest element of a set of integers
Nth(S, n) == CHOOSE x \in S : Cardinality({y \in S : y < x}) = n - 1

\* The link that carries identifier id
LinkWith(username, id) ==
    <<"h","t","t","p",":","/","/","g","r","e","g",".","a","p","p","/">> \o Lower(username) \o <<"/","p","l","a","n","t","s","/">> \o id \o <<"/">>

\* The text of at most IdLen characters that follows the marker at offset o
Following(html, marker, o) ==
    LET from == o + Len(marker)
        upto == IF from + IdLen < Len(html) THEN from + IdLen ELSE Len(html)
    IN  [i \in 1..(upto - from) |-> html[from + i]]

\* C1 as stated: k occurrences of the marker give exactly k links, in
\* document order, the i-th carrying exactly the 8 characters that follow
\* the i-th occurrence.
C1_OneLinkPerOccurrence ==
    fpl.pc = "returned" =>
        LET marker == fpl.username \o <<"/","p","l","a","n","t","s","/">>
            occ == Occurrences(fpl.html, marker)
        IN  /\ Len(fpl.links) = Cardinality(occ)
            /\ \A i \in 1..Cardinality(occ) :
                  LET id == Following(fpl.html, marker, Nth(occ, i))
                  IN  /\ Len(id) = 8
                      /\ fpl.links[i] = LinkWith(fpl.username, id)

\* The occurrences the scan counts: an occurrence counts unless it begins
\* before the end of the 8-character slice of an earlier counted one.
Counted(html, marker) ==
    LET occ == Occurrences(html, marker)
        counted[p \in 0..Len(html)] ==
            /\ p \in occ
            /\ \A q \in 0..(p - 1) : counted[q] => q + Len(marker) + 8 <= p
    IN  {p \in occ : counted[p]}

\* C1 amended: one link per counted occurrence, in document order, the
\* i-th carrying the up to 8 characters that follow the i-th counted
\* occurrence (fewer when the text ends first).
C1_OneLinkPerCountedOccurrence ==
    fpl.pc = "returned" =>
        LET marker == fpl.username \o <<"/","p","l","a","n","t","s","/">>
            occ == Counted(fpl.html, marker)
        IN  /\ Len(fpl.links) = Cardinality(occ)
            /\ \A i \in 1..Cardinality(occ) :
                  fpl.links[i] =
                     LinkWith(fpl.username, Following(fpl.html, marker, Nth(occ, i)))

\* Two links returned from a page with a third, uncounted occurrence.
C1_Witness ==
    /\ fpl.pc = "returned"
    /\ Len(fpl.links) = 2
    /\ Cardinality(Occurrences(fpl.html, fpl.username \o <<"/","p","l","a","n","t","s","/">>)) = 3

(***************************************************************************)
(* Properties of process_plant_page (SpecFetch).                           *)
(***************************************************************************)
HasSignal(t) ==
    \E i \in 1..(Len(t) - 2) : t[i] = "<" /\ t[i + 1] = "h" /\ t[i + 2] = "1"

\* Positions in the body of the chunks that decode and hold the signal
Matching(body) == {i \in 1..Len(body) : body[i].utf8 /\ HasSignal(body[i].text)}

First(S) == CHOOSE x \in S : \A y \in S : x <= y

\* C4: the result is the text of the first chunk that decodes and holds
\* "<h1", no chunk after it is ever read, undecodable chunks are passed
\* over, and with no such chunk the result is None after the whole body
\* and the end of stream were read.
C4_FirstSignalChunk ==
    ppp.pc # "idle" =>
        LET r == ppp.response
            m == Matching(r.raw)
        IN  /\ m # {} => r.reads <= First(m)
            /\ ppp.pc = "returned" =>
                  IF m = {}
                  THEN ppp.ret = [kind |-> "None"] /\ r.reads = Len(r.raw) + 1
                  ELSE /\ ppp.ret = [kind |-> "str", val |-> r.raw[First(m)].text]
                       /\ r.reads = First(m)

\* Returned the second chunk after an undecodable first one that holds the
\* signal bytes, with a third chunk left unread.
C4_Witness ==
    /\ ppp.pc = "returned"
    /\ Len(ppp.response.raw) = 3
    /\ ~ppp.response.raw[1].utf8
    /\ HasSignal(ppp.response.raw[1].text)
    /\ ppp.ret = [kind |-> "str", val |-> ppp.response.raw[2].text]
    /\ ppp.response.reads = 2

\* C5: while the loop runs the response is open; once the function has
\* returned, on any path, close() was called exactly once, and no read
\* followed a close.
C5_ClosedExactlyOnce ==
    /\ ppp.pc = "read" => ppp.response.closes = 0 /\ ppp.response.late_reads = 0
    /\ ppp.pc = "returned" => ppp.response.closes = 1 /\ ppp.response.late_reads = 0

\* Returned None from a body with an undecodable chunk and no match.
C5_Witness ==
    /\ ppp.pc = "returned"
    /\ ppp.ret = [kind |-> "None"]
    /\ ppp.response.closes = 1
    /\ \E i \in 1..Len(ppp.response.raw) : ~ppp.response.raw[i].utf8
    /\ \E i \in 1..Len(ppp.response.raw) : ppp.response.raw[i].utf8

(***************************************************************************)
(* Properties of extract_plant_data (SpecExtract).                         *)
(***************************************************************************)
\* The text from offset i up to and including the next ">", when there is one
TagAt(s, i) ==
    LET closes == {j \in i..(Len(s) - 1) : s[j + 1] = ">"}
    IN  IF closes = {} THEN <<>> ELSE Slice(s, i, First(closes) + 1)

\* Some "<article" tag, read up to its ">", holds id="plant-profile"
HasContainer(s) ==
    \E i \in Occurrences(s, <<"<","a","r","t","i","c","l","e">>) :
        Occurrences(TagAt(s, i), <<"i","d","=","\"","p","l","a","n","t","-","p","r","o","f","i","l","e","\"">>) # {}

\* C3: on a page without the container the function returns a record, the
\* empty one, as it does when the container is found with no fields.
C3_EmptyRecordWithoutContainer ==
    (epd.pc = "returned" /\ ~HasContainer(epd.html.val)) =>
        epd.ret = [kind |-> "dict", items |-> <<>>]

\* The value of attribute attr (given as name=") in tag, up to the next quote
AttrValue(tag, attr) ==
    LET at == Occurrences(tag, attr)
        from == First(at) + Len(attr)
        quotes == {j \in from..(Len(tag) - 1) : tag[j + 1] = "\""}
    IN  IF at = {} \/ quotes = {} THEN [found |-> FALSE]
        ELSE [found |-> TRUE, val |-> Slice(tag, from, First(quotes))]

\* The filename stem of a path: after the last "/", before the first "."
Stem(path) == FirstSegment(LastSegment(path, "/"), ".")

\* The identifier a block's own img tag gives: the stem of src when that is
\* not empty, otherwise alt with "-" replaced by "_"; none without either.
OwnIdentifier(block) ==
    LET imgs == Occurrences(block, <<"<","i","m","g">>)
        img_tag == TagAt(block, First(imgs))
        src == AttrValue(img_tag, <<"s","r","c","=","\"">>)
        alt == AttrValue(img_tag, <<"a","l","t","=","\"">>)
    IN  IF imgs = {} \/ img_tag = <<>> THEN [found |-> FALSE]
        ELSE IF src.found /\ Stem(src.val) # <<>>
        THEN [found |-> TRUE, val |-> Stem(src.val)]
        ELSE IF alt.found
        THEN [found |-> TRUE, val |-> ReplaceChar(alt.val, "-", "_")]
        ELSE [found |-> FALSE]

\* An iteration of the detail loop that has a whole block before it
AtBlock == epd.pc = "details" /\ DivStart(epd) # -1 /\ DivEnd(epd) # -1

\* C7: a block with an identifier of its own and a label adds exactly that
\* pair; a block without one of them adds nothing, changes nothing, raises
\* nothing, and the loop goes on.
C7_BlockAddsOnePairOrNothing ==
    [][AtBlock =>
          LET block == DivContent(epd)
              id == OwnIdentifier(block)
              label == SpanValue(block)
          IN  /\ epd'.pc = "details"
              /\ epd'.return_data =
                    IF id.found /\ label.found
                    THEN DictSet(epd.return_data, id.val, label.value)
                    ELSE epd.return_data]_vars

\* C8: whenever an iteration stores a key, the key is the identifier of
\* that block's own img tag, never one left from an earlier block.
C8_KeyFromOwnImage ==
    [][(AtBlock /\ epd'.pc = "details" /\ epd'.return_data # epd.return_data) =>
          LET id == OwnIdentifier(DivContent(epd))
          IN  /\ id.found
              /\ HasKey(epd'.return_data, id.val)
              /\ \A k \in 1..Len(epd.return_data) :
                    epd.return_data[k].key # id.val =>
                       epd'.return_data[k] = epd.return_data[k]
              /\ Len(epd'.return_data) - Len(epd.return_data) =
                    (IF HasKey(epd.return_data, id.val) THEN 0 ELSE 1)]_vars

\* The cursor heading extraction leaves, as an offset into the page
HeadingCursorInPage(f) ==
    LET article_content == ArticleContent(f)
    IN  f.end_of_tag + 1
          + TypeSection(article_content,
                        NameSection(article_content).search_index).search_index

\* C9: a block that contributes a key begins at or after the cursor left by
\* heading extraction, hence after the container's opening tag.
C9_DetailsAfterHeadings ==
    [][(AtBlock /\ epd'.pc = "details" /\ epd'.return_data # epd.return_data) =>
          DivStart(epd) >= HeadingCursorInPage(epd)]_vars

(***************************************************************************)
(* The append-only log (SpecLog).                                          *)
(***************************************************************************)
\* The entries a file holds: those of its JSON array, or its single object
EntriesIn(f) ==
    IF ~f.exists THEN <<>>
    ELSE IF IsArrayText(f.content)
    THEN [k \in 1..((Len(f.content) - 1) \div 2) |-> f.content[2 * k].v]
    ELSE IF Len(f.content) = 1 /\ f.content[1].t = "object"
    THEN <<f.content[1].v>>
    ELSE <<>>

IsPrefix(s, t) == Len(s) <= Len(t) /\ SubSeq(t, 1, Len(s)) = s

\* C6: every call leaves the entries stored before it in place, as a prefix
\* of what is stored after it, and a call whose write succeeds stores them
\* followed by exactly the new entry.
C6_AppendOnly ==
    [][wpd'.calls = wpd.calls + 1 =>
          /\ IsPrefix(EntriesIn(file), EntriesIn(file'))
          /\ wpd'.outcome.kind = "ok" =>
                EntriesIn(file') =
                   Append(EntriesIn(file), EntryToJson(wpd'.new_entry))]_vars

(***************************************************************************)
(* The traversal of main (SpecMain).                                       *)
(***************************************************************************)
\* C2: whatever the outcome for one link, main goes on to the later links:
\* when main has stopped, every link of the list was fetched and handed to
\* extraction.
C2_EveryLinkProcessed ==
    mainf.pc \in {"done", "raised"} =>
        /\ mainf.fetched = Len(mainf.plant_links)
        /\ mainf.extracted = Len(mainf.plant_links)

=============================================================================
